---- MODULE Spec2Model ----
(***************************************************************************)
(* State-machine model of the trivia quiz backend (src/app.py and          *)
(* src/question_generator.py): the in-memory question list QUESTIONS and   *)
(* the file questions.json behind it, the cookie session of each client,   *)
(* the tables question_stats, leaderboard and achievements, and the HTTP   *)
(* handlers start_game, get_question, submit_answer, get_results,          *)
(* submit_score, get_leaderboard, reset_game and generate_question.        *)
(*                                                                         *)
(* A handler is one step: a Flask session is the client's cookie, which    *)
(* the handler reads at the start of a request and writes with the         *)
(* response, and a client sends its next request after the response        *)
(* (Receive).  submit_answer is also given as three steps, so that the     *)
(* requests of two clients interleave around the question_stats write.     *)
(*                                                                         *)
(* Indices are 0-based as in the Python code; a Python list is a TLA+      *)
(* sequence, so element i of a list l is l[i + 1] (operator At).           *)
(* A percentage is counted in tenths of a percent (100.0 is 1000) and a    *)
(* timestamp in seconds.  Fields of a question that no handler modelled    *)
(* here reads (subcategory, explanation, funFact) and the session's        *)
(* start_time are not represented.                                         *)
(***************************************************************************)
EXTENDS Integers, Sequences, FiniteSets, TLC

VARIABLES
    QUESTIONS,   \* the module-level list loaded at startup (app.py:161)
    session,     \* session[s]: the Flask cookie session of client s
    req,         \* req[s]: the request of client s being served
    stats,       \* the question_stats table: question_id -> row
    resp,        \* resp[s]: the response on its way to client s
    presented,   \* presented[s]: what /api/question last showed client s at its current index
    pc,          \* pc[s]: "idle", inside submit_answer ("stats", "advance"), or "done"
    questions_file,  \* the records of questions.json, or NoFile
    leaderboard,     \* the leaderboard table: its rows in the order of their id
    achievements     \* the achievements table: its rows in the order of their id

vars == <<QUESTIONS, session, stats, req, resp, presented, pc,
          questions_file, leaderboard, achievements>>

----------------------------------------------------------------------------
(* Bounds of the model *)

\* largest numQuestions a client requests (the smallest is -1)
MaxNum == 2
\* random.shuffle is explored for the rotations by 0..MaxRot positions
MaxRot == 1
\* answers are explored while fewer than MaxShown outcomes are in question_stats
MaxShown == 2
\* scores are submitted while the leaderboard has fewer than MaxEntries rows
MaxEntries == 2
\* questions are generated while fewer than MaxGenerated have been saved
MaxGenerated == 2

----------------------------------------------------------------------------
(* Data *)

\* every question of the store carries 4 options (app.py:96)
NumOptions == 4

\* data.get('answer') when the request body has no 'answer' key: None (app.py:278)
NoAnswer == -1

Sessions == {"s1", "s2"}

Min(a, b) == IF a <= b THEN a ELSE b

At(list, i) == list[i + 1]

\* the set of the items of a list
Elements(list) == { list[i] : i \in 1..Len(list) }

\* str.lower() on the category and difficulty strings that occur
Lower(str) ==
    CASE str = "Science" -> "science"
      [] str = "SCIENCE" -> "science"
      [] str = "EASY"    -> "easy"
      [] str = "Hard"    -> "hard"
      [] str = "ALL"     -> "all"
      [] str = "Art"     -> "art"
      [] OTHER           -> str

\* load_questions() when questions.json does not exist
DefaultQuestions ==
    << [id |-> "default_001", category |-> "general", difficulty |-> "easy",
        question |-> "What is the capital of France?",
        options |-> <<"London", "Berlin", "Paris", "Madrid">>, correct |-> 2] >>

\* load_questions() for a questions.json of two records
FileQuestions ==
    << [id |-> "sci_001", category |-> "Science", difficulty |-> "easy",
        question |-> "Which planet is the red planet?",
        options |-> <<"Mars", "Venus", "Jupiter", "Saturn">>, correct |-> 0],
       [id |-> "his_001", category |-> "history", difficulty |-> "Hard",
        question |-> "Who was the first Roman emperor?",
        options |-> <<"Nero", "Caesar", "Trajan", "Augustus">>, correct |-> 3] >>

\* questions.json does not exist
NoFile == [exists |-> FALSE, records |-> <<>>]

\* a questions.json of two records, as json.load returns them
QuestionsJson ==
    [exists |-> TRUE,
     records |->
       << [id |-> "sci_001", category |-> "Science", difficulty |-> "easy",
           question |-> "Which planet is the red planet?",
           options |-> <<"Mars", "Venus", "Jupiter", "Saturn">>, correctAnswer |-> 0],
          [id |-> "his_001", category |-> "history", difficulty |-> "Hard",
           question |-> "Who was the first Roman emperor?",
           options |-> <<"Nero", "Caesar", "Trajan", "Augustus">>, correctAnswer |-> 3] >>]

\* lines 72-100: the records of the file with 'correctAnswer' read as
\* 'correct', or the default question when there is no file
load_questions(file) ==
    IF file.exists
    THEN [i \in 1..Len(file.records) |->
            [id |-> file.records[i].id,
             category |-> file.records[i].category,
             difficulty |-> file.records[i].difficulty,
             question |-> file.records[i].question,
             options |-> file.records[i].options,
             correct |-> file.records[i].correctAnswer]]
    ELSE DefaultQuestions

\* session.clear(): no key is left in the session
EmptySession ==
    [started |-> FALSE, questions |-> <<>>, current_index |-> 0, score |-> 0,
     answers |-> <<>>, question_generated |-> FALSE,
     game_category |-> "all", game_difficulty |-> "all"]

NotPresented == [shown |-> FALSE, options |-> <<>>]

NoRequest == [op |-> "none"]

NoResponse == [op |-> "none", status |-> 0]

\* jsonify({'error': msg}), status
Error(op, status, msg) == [op |-> op, status |-> status, error |-> msg]

\* an exception no handler catches: Flask answers 500 without a JSON error body
Fault(op, exc) == [op |-> op, status |-> 500, exception |-> exc]

----------------------------------------------------------------------------
(* start_game *)

\* the list comprehensions of start_game: case-insensitive match, 'all' = no filter
FilterQuestions(qs, category, difficulty) ==
    LET byCat(q)  == category = "all" \/ Lower(q.category) = Lower(category)
        byDiff(q) == difficulty = "all" \/ Lower(q.difficulty) = Lower(difficulty)
        keep(q)   == byCat(q) /\ byDiff(q)
    IN SelectSeq(qs, keep)

\* random.choices(population, k=k): positions may repeat
SampleWithReplacement(population, k) ==
    { [i \in 1..k |-> population[pos[i]]] : pos \in [1..k -> 1..Len(population)] }

\* random.sample(population, k): every ordered choice of k distinct positions
Sample(population, k) ==
    { [i \in 1..k |-> population[pos[i]]] :
        pos \in { f \in [1..k -> 1..Len(population)] :
                    \A i, j \in 1..k : i # j => f[i] # f[j] } }

\* the requested count dropped: the whole pool is played
NumQuestionsIgnoringCount(n, qs, available) == Min(Len(qs), Len(available))

\* lines 176 and 188: the requested count clamped to the store, then to the pool
NumQuestions(n, qs, available) == Min(Min(n, Len(qs)), Len(available))

NewGame(selected, category, difficulty) ==
    [started |-> TRUE, questions |-> selected, current_index |-> 0, score |-> 0,
     answers |-> <<>>, question_generated |-> FALSE,
     game_category |-> category, game_difficulty |-> difficulty]

start_game(s, n, category, difficulty) ==
    LET available == FilterQuestions(QUESTIONS, category, difficulty)
        num_questions == NumQuestions(n, QUESTIONS, available)
    IN /\ pc[s] = "idle"
       /\ req' = [req EXCEPT ![s] = [op |-> "start", numQuestions |-> n,
                                     category |-> category, difficulty |-> difficulty]]
       /\ IF num_questions = 0
          THEN \* session.clear() has run; 400 is returned
               /\ session' = [session EXCEPT ![s] = EmptySession]
               /\ presented' = [presented EXCEPT ![s] = NotPresented]
               /\ resp' = [resp EXCEPT ![s] =
                            Error("start", 400, "No questions match your criteria")]
          ELSE IF num_questions < 0
          THEN \* random.sample raises ValueError; the cleared session is saved
               \* with the 500 response, or kept when the exception propagates
               \* to the debugger (app.run(debug=True))
               /\ \E cleared \in BOOLEAN :
                    /\ session' = [session EXCEPT ![s] = IF cleared THEN EmptySession ELSE @]
                    /\ presented' = [presented EXCEPT ![s] = IF cleared THEN NotPresented ELSE @]
               /\ resp' = [resp EXCEPT ![s] = Fault("start", "ValueError")]
          ELSE /\ \E selected \in Sample(available, num_questions) :
                    session' = [session EXCEPT ![s] = NewGame(selected, category, difficulty)]
               /\ presented' = [presented EXCEPT ![s] = NotPresented]
               /\ resp' = [resp EXCEPT ![s] =
                            [op |-> "start", status |-> 200,
                             totalQuestions |-> Len(session'[s].questions)]]
       /\ pc' = [pc EXCEPT ![s] = "done"]
       /\ UNCHANGED <<QUESTIONS, stats,
                 questions_file, leaderboard, achievements>>

----------------------------------------------------------------------------
(* get_question *)

\* the rotation by r positions of a list of n items, as the order random.shuffle leaves
Rotation(r, n) == [k \in 1..n |-> ((k - 1 + r) % n) + 1]

\* the order that exchanges the first two of n items
SwapFirst(n) == [k \in 1..n |-> IF k = 1 THEN 2 ELSE IF k = 2 THEN 1 ELSE k]

\* the options reordered while question['correct'] keeps its old value
ShuffledKeepIndex(question, p) ==
    [question EXCEPT
        !.options = [k \in 1..Len(question.options) |-> question.options[p[k]]]]

\* lines 228-237: the copy of the question with its options in the order p
\* (position k holds the option that was at p[k]) and the new index of the
\* option that was at question['correct']
Shuffled(question, p) ==
    [question EXCEPT
        !.options = [k \in 1..Len(question.options) |-> question.options[p[k]]],
        !.correct = (CHOOSE k \in 1..Len(question.options) : p[k] - 1 = question.correct) - 1]

\* the shuffled copy is returned to the client but not written to the session
StoreNothing(sess, question) == sess

\* the shuffled copy is written and the cursor moved past it
StoreShuffledAndAdvance(sess, question) ==
    [sess EXCEPT !.questions[sess.current_index + 1] = question,
                 !.current_index = @ + 1]

\* the shuffled copy is added at the end of the session's list
StoreShuffledAppended(sess, question) ==
    [sess EXCEPT !.questions = Append(@, question)]

\* line 240: session['questions'][current_index] = question
StoreShuffled(sess, question) ==
    [sess EXCEPT !.questions[sess.current_index + 1] = question]

\* stats['times_correct'] + stats['times_incorrect'], 0 without a row
TimesAnswered(id) ==
    IF id \in DOMAIN stats THEN stats[id].times_correct + stats[id].times_incorrect ELSE 0

get_question(s, p) ==
    /\ pc[s] = "idle"
    /\ req' = [req EXCEPT ![s] = [op |-> "question"]]
    /\ IF ~session[s].started
       THEN /\ resp' = [resp EXCEPT ![s] = Error("question", 400, "No active game")]
            /\ UNCHANGED <<session, presented>>
       ELSE IF session[s].current_index >= Len(session[s].questions)
       THEN /\ resp' = [resp EXCEPT ![s] = Error("question", 400, "No more questions")]
            /\ UNCHANGED <<session, presented>>
       ELSE LET question == Shuffled(At(session[s].questions, session[s].current_index), p)
            IN /\ session' = [session EXCEPT ![s] = StoreShuffled(@, question)]
               /\ presented' = [presented EXCEPT ![s] =
                                  [shown |-> TRUE, options |-> question.options]]
               /\ resp' = [resp EXCEPT ![s] =
                            [op |-> "question", status |-> 200,
                             question |-> question.question,
                             options |-> question.options,
                             questionNumber |-> session[s].current_index + 1,
                             totalQuestions |-> Len(session[s].questions),
                             timesAnswered |-> TimesAnswered(question.id)]]
    /\ pc' = [pc EXCEPT ![s] = "done"]
    /\ UNCHANGED <<QUESTIONS, stats,
                 questions_file, leaderboard, achievements>>

----------------------------------------------------------------------------
(* submit_answer *)

\* line 281
IsCorrect(answer_index, current_question) == answer_index = current_question.correct

\* the answer is appended and the score left as it is
RecordAnswerKeepScore(sess, answer_index) ==
    LET current_question == At(sess.questions, sess.current_index)
        is_correct == IsCorrect(answer_index, current_question)
    IN [sess EXCEPT
          !.answers = Append(@, [question |-> current_question.question,
                                 userAnswer |-> answer_index,
                                 correct |-> is_correct,
                                 correctAnswer |-> current_question.correct])]

\* lines 280-292: the answer is appended and the score raised
RecordAnswer(sess, answer_index) ==
    LET current_question == At(sess.questions, sess.current_index)
        is_correct == IsCorrect(answer_index, current_question)
    IN [sess EXCEPT
          !.answers = Append(@, [question |-> current_question.question,
                                 userAnswer |-> answer_index,
                                 correct |-> is_correct,
                                 correctAnswer |-> current_question.correct]),
          !.score = IF is_correct THEN @ + 1 ELSE @]

\* INSERT OR REPLACE: an existing row is overwritten by the new one
RecordOutcomeReplace(table, id, is_correct) ==
    [x \in DOMAIN table \cup {id} |->
        IF x = id
        THEN [times_shown |-> 1,
              times_correct |-> IF is_correct THEN 1 ELSE 0,
              times_incorrect |-> IF is_correct THEN 0 ELSE 1]
        ELSE table[x]]

\* ON CONFLICT DO NOTHING: an existing row is left as it is
RecordOutcomeIgnore(table, id, is_correct) ==
    IF id \in DOMAIN table THEN table ELSE RecordOutcomeReplace(table, id, is_correct)

\* lines 297-310: INSERT ... ON CONFLICT(question_id) DO UPDATE, one statement
RecordOutcome(table, id, is_correct) ==
    LET c == IF is_correct THEN 1 ELSE 0
        i == IF is_correct THEN 0 ELSE 1
    IN IF id \in DOMAIN table
       THEN [table EXCEPT ![id] = [times_shown |-> @.times_shown + 1,
                                   times_correct |-> @.times_correct + c,
                                   times_incorrect |-> @.times_incorrect + i]]
       ELSE (id :> [times_shown |-> 1, times_correct |-> c, times_incorrect |-> i]) @@ table

\* line 314
Advance(sess) == [sess EXCEPT !.current_index = @ + 1]

\* isLastQuestion computed with > in place of >=
AnswerResponseStrict(sess) ==
    LET current_question == At(sess.questions, sess.current_index - 1)
    IN [op |-> "answer", status |-> 200,
        correct |-> sess.answers[Len(sess.answers)].correct,
        correctAnswer |-> At(current_question.options, current_question.correct),
        isLastQuestion |-> sess.current_index > Len(sess.questions)]

\* lines 318-330, computed after the index has moved
AnswerResponse(sess) ==
    LET current_question == At(sess.questions, sess.current_index - 1)
    IN [op |-> "answer", status |-> 200,
        correct |-> sess.answers[Len(sess.answers)].correct,
        correctAnswer |-> At(current_question.options, current_question.correct),
        isLastQuestion |-> sess.current_index >= Len(sess.questions)]

RECURSIVE TotalShown(_)
\* the number of outcomes recorded in question_stats, over all its rows
TotalShown(table) ==
    IF DOMAIN table = {} THEN 0
    ELSE LET id == CHOOSE x \in DOMAIN table : TRUE
         IN table[id].times_shown + TotalShown([x \in DOMAIN table \ {id} |-> table[x]])

\* the model explores answers only while fewer than MaxShown have been recorded
BelowCap == TotalShown(stats) < MaxShown

\* the whole handler, for a client whose requests nothing interleaves with
submit_answer(s, answer_index) ==
    /\ pc[s] = "idle"
    /\ req' = [req EXCEPT ![s] = [op |-> "answer"]]
    /\ IF ~session[s].started
       THEN /\ resp' = [resp EXCEPT ![s] = Error("answer", 400, "No active game")]
            /\ UNCHANGED <<session, stats, presented>>
       ELSE IF session[s].current_index >= Len(session[s].questions)
       THEN \* line 280: list index out of range
            /\ resp' = [resp EXCEPT ![s] = Fault("answer", "IndexError")]
            /\ UNCHANGED <<session, stats, presented>>
       ELSE LET current_question == At(session[s].questions, session[s].current_index)
                answered == RecordAnswer(session[s], answer_index)
            IN /\ BelowCap
               /\ stats' = RecordOutcome(stats, current_question.id,
                                         IsCorrect(answer_index, current_question))
               /\ session' = [session EXCEPT ![s] = Advance(answered)]
               /\ presented' = [presented EXCEPT ![s] = NotPresented]
               /\ resp' = [resp EXCEPT ![s] = AnswerResponse(session'[s])]
    /\ pc' = [pc EXCEPT ![s] = "done"]
    /\ UNCHANGED <<QUESTIONS, questions_file, leaderboard, achievements>>

\* The handler when the statement of lines 297-310 raises (sqlite3.Error: the
\* database is locked, the disk is full).  `with get_db()` leaves the table
\* as it was and the exception leaves the handler at line 311, after the
\* session was updated in lines 284-292 and before line 314.  Flask writes
\* the session with the 500 response when session.modified is set, which
\* line 292 does and line 284 (an append to a nested list) does not; under
\* app.run(debug=True) the exception goes to the debugger and no cookie is
\* written.
submit_answer_stats_error(s, answer_index) ==
    /\ pc[s] = "idle"
    /\ session[s].started
    /\ session[s].current_index < Len(session[s].questions)
    /\ Len(session[s].answers) < MaxShown
    /\ req' = [req EXCEPT ![s] = [op |-> "answer"]]
    /\ LET current_question == At(session[s].questions, session[s].current_index)
           modified == IsCorrect(answer_index, current_question)
       IN \E saved \in BOOLEAN :
             session' = [session EXCEPT ![s] =
                           IF saved /\ modified THEN RecordAnswer(@, answer_index) ELSE @]
    /\ resp' = [resp EXCEPT ![s] = Fault("answer", "sqlite3.Error")]
    /\ pc' = [pc EXCEPT ![s] = "done"]
    /\ UNCHANGED <<QUESTIONS, stats, presented,
                   questions_file, leaderboard, achievements>>

\* The same handler as three steps, for clients whose requests run concurrently:
\* lines 274-292 on the request's own copy of the session, the SQL statement
\* of lines 297-311, and lines 314-330.
submit_answer_begin(s, answer_index) ==
    /\ pc[s] = "idle"
    /\ req' = [req EXCEPT ![s] = [op |-> "answer"]]
    /\ IF ~session[s].started
       THEN /\ resp' = [resp EXCEPT ![s] = Error("answer", 400, "No active game")]
            /\ pc' = [pc EXCEPT ![s] = "done"]
            /\ UNCHANGED session
       ELSE IF session[s].current_index >= Len(session[s].questions)
       THEN /\ resp' = [resp EXCEPT ![s] = Fault("answer", "IndexError")]
            /\ pc' = [pc EXCEPT ![s] = "done"]
            /\ UNCHANGED session
       ELSE /\ BelowCap
            /\ session' = [session EXCEPT ![s] = RecordAnswer(@, answer_index)]
            /\ pc' = [pc EXCEPT ![s] = "stats"]
            /\ UNCHANGED resp
    /\ UNCHANGED <<QUESTIONS, stats, presented,
                 questions_file, leaderboard, achievements>>

submit_answer_stats(s) ==
    /\ pc[s] = "stats"
    /\ stats' = RecordOutcome(stats,
                              At(session[s].questions, session[s].current_index).id,
                              session[s].answers[Len(session[s].answers)].correct)
    /\ pc' = [pc EXCEPT ![s] = "advance"]
    /\ UNCHANGED <<QUESTIONS, session, req, resp, presented,
                 questions_file, leaderboard, achievements>>

submit_answer_finish(s) ==
    /\ pc[s] = "advance"
    /\ session' = [session EXCEPT ![s] = Advance(@)]
    /\ presented' = [presented EXCEPT ![s] = NotPresented]
    /\ resp' = [resp EXCEPT ![s] = AnswerResponse(session'[s])]
    /\ pc' = [pc EXCEPT ![s] = "done"]
    /\ UNCHANGED <<QUESTIONS, stats, req,
                 questions_file, leaderboard, achievements>>

----------------------------------------------------------------------------
(* reset_game *)

\* the handler without its session.clear()
reset_game_keeps_session(s) ==
    /\ pc[s] = "idle"
    /\ req' = [req EXCEPT ![s] = [op |-> "reset"]]
    /\ resp' = [resp EXCEPT ![s] = [op |-> "reset", status |-> 200]]
    /\ pc' = [pc EXCEPT ![s] = "done"]
    /\ UNCHANGED <<QUESTIONS, session, stats, presented,
                   questions_file, leaderboard, achievements>>

reset_game(s) ==
    /\ pc[s] = "idle"
    /\ req' = [req EXCEPT ![s] = [op |-> "reset"]]
    /\ session' = [session EXCEPT ![s] = EmptySession]
    /\ presented' = [presented EXCEPT ![s] = NotPresented]
    /\ resp' = [resp EXCEPT ![s] = [op |-> "reset", status |-> 200]]
    /\ pc' = [pc EXCEPT ![s] = "done"]
    /\ UNCHANGED <<QUESTIONS, stats,
                 questions_file, leaderboard, achievements>>

----------------------------------------------------------------------------
(* get_results *)

\* round(score / total_questions * 100, 1), in tenths of a percent (100.0 is
\* 1000): the nearest tenth, the even one of two equally near
Percentage(score, total_questions) ==
    LET n == score * 1000
        q == n \div total_questions
        r == n % total_questions
    IN IF 2 * r < total_questions THEN q
       ELSE IF 2 * r > total_questions THEN q + 1
       ELSE IF q % 2 = 0 THEN q ELSE q + 1

\* 'questions' in session and 'answers' in session: start_game sets both
\* keys and only session.clear() removes them
HasGameKeys(sess) == sess.started

get_results(s) ==
    /\ pc[s] = "idle"
    /\ req' = [req EXCEPT ![s] = [op |-> "results"]]
    /\ resp' = [resp EXCEPT ![s] =
                 IF ~HasGameKeys(session[s])
                 THEN Error("results", 400, "No completed game")
                 ELSE LET total_questions == Len(session[s].questions)
                      IN [op |-> "results", status |-> 200,
                          score |-> session[s].score,
                          totalQuestions |-> total_questions,
                          percentage |-> Percentage(session[s].score, total_questions),
                          answers |-> session[s].answers,
                          questions |-> session[s].questions,
                          category |-> session[s].game_category,
                          difficulty |-> session[s].game_difficulty]]
    /\ pc' = [pc EXCEPT ![s] = "done"]
    /\ UNCHANGED <<QUESTIONS, session, stats, presented,
                   questions_file, leaderboard, achievements>>

----------------------------------------------------------------------------
(* check_achievements *)

\* a row of the achievements table
AchievementRow(player_name, achievement_type, achievement_name) ==
    [player_name |-> player_name, achievement_type |-> achievement_type,
     achievement_name |-> achievement_name]

\* the table without its UNIQUE constraint: the INSERT always adds a row
AwardUnconstrained(st, player_name, achievement_type, achievement_name) ==
    [table |-> Append(st.table,
                      AchievementRow(player_name, achievement_type, achievement_name)),
     earned |-> Append(st.earned, achievement_name)]

\* one try/except block: the INSERT adds the row and the name is appended
\* to the returned list, unless UNIQUE(player_name, achievement_type,
\* achievement_name) raises IntegrityError, which is passed over
Award(st, player_name, achievement_type, achievement_name) ==
    LET row == AchievementRow(player_name, achievement_type, achievement_name)
    IN IF \E i \in 1..Len(st.table) : st.table[i] = row
       THEN st
       ELSE [table |-> Append(st.table, row),
             earned |-> Append(st.earned, achievement_name)]

\* line 108: percentage == 100.0
IsPerfectGame(percentage) == percentage = 1000

\* the test of line 119 with > in place of >=
IsTriviaMasterStrict(percentage) == percentage > 900

\* line 119: percentage >= 90.0
IsTriviaMaster(percentage) == percentage >= 900

\* line 130: total_questions >= 20
IsMarathon(total_questions) == total_questions >= 20

\* line 141: SELECT COUNT(*) FROM leaderboard WHERE player_name = ?
ExistingGames(board, player_name) ==
    Cardinality({ i \in 1..Len(board) : board[i].player_name = player_name })

\* lines 102-158: the achievements table after the call and the list of the
\* achievements the call inserted, against the leaderboard as it stands
check_achievements(table, board, player_name, score, total_questions, percentage) ==
    LET st0 == [table |-> table, earned |-> <<>>]
        st1 == IF IsPerfectGame(percentage)
               THEN Award(st0, player_name, "perfect_score", "Perfect Game") ELSE st0
        st2 == IF IsTriviaMaster(percentage)
               THEN Award(st1, player_name, "high_score", "Trivia Master") ELSE st1
        st3 == IF IsMarathon(total_questions)
               THEN Award(st2, player_name, "marathon", "Marathon Player") ELSE st2
    IN IF ExistingGames(board, player_name) = 0
       THEN Award(st3, player_name, "first_game", "Welcome Player") ELSE st3

\* one call of check_achievements with the arguments of a finished game,
\* against the tables as they stand; the returned list goes to the caller
evaluate(s, player_name, score, total_questions) ==
    LET percentage == Percentage(score, total_questions)
        checked == check_achievements(achievements, leaderboard, player_name,
                                      score, total_questions, percentage)
    IN /\ pc[s] = "idle"
       /\ req' = [req EXCEPT ![s] =
                    [op |-> "achievements", player_name |-> player_name, score |-> score,
                     total_questions |-> total_questions, percentage |-> percentage]]
       /\ achievements' = checked.table
       /\ resp' = [resp EXCEPT ![s] =
                    [op |-> "achievements", status |-> 200,
                     achievements |-> checked.earned]]
       /\ pc' = [pc EXCEPT ![s] = "done"]
       /\ UNCHANGED <<QUESTIONS, session, stats, presented, questions_file, leaderboard>>

----------------------------------------------------------------------------
(* submit_score *)

\* a name of 51 characters
LongName == "Maximilian-Alexander-Bartholomew-Montgomery-the-3rd"

\* str.strip() on the player names and categories that occur
Strip(str) ==
    CASE str = " Bob " -> "Bob"
      [] str = "  "    -> ""
      [] str = " Art " -> "Art"
      [] OTHER         -> str

\* len(player_name) > 50, on the names that occur
TooLong(str) == str = LongName

\* CURRENT_TIMESTAMP counts seconds: a row is stamped with the second of the
\* row before it or with a later one
Timestamps(board) ==
    LET last == IF board = <<>> THEN 0 ELSE board[Len(board)].timestamp
    IN {last, last + 1}

\* lines 374-379: the row the INSERT adds, with the next AUTOINCREMENT id
LeaderboardRow(board, player_name, sess, timestamp) ==
    [id |-> Len(board) + 1,
     player_name |-> player_name,
     score |-> sess.score,
     total_questions |-> Len(sess.questions),
     percentage |-> Percentage(sess.score, Len(sess.questions)),
     category |-> sess.game_category,
     difficulty |-> sess.game_difficulty,
     timestamp |-> timestamp]

submit_score(s, playerName) ==
    LET player_name == Strip(playerName)
    IN /\ pc[s] = "idle"
       /\ req' = [req EXCEPT ![s] = [op |-> "score", playerName |-> playerName]]
       /\ IF ~HasGameKeys(session[s])
          THEN /\ resp' = [resp EXCEPT ![s] = Error("score", 400, "No completed game")]
               /\ UNCHANGED <<leaderboard, achievements>>
          ELSE IF player_name = ""
          THEN /\ resp' = [resp EXCEPT ![s] = Error("score", 400, "Player name is required")]
               /\ UNCHANGED <<leaderboard, achievements>>
          ELSE IF TooLong(player_name)
          THEN /\ resp' = [resp EXCEPT ![s] =
                            Error("score", 400, "Player name too long (max 50 characters)")]
               /\ UNCHANGED <<leaderboard, achievements>>
          ELSE /\ Len(leaderboard) < MaxEntries
               /\ \E timestamp \in Timestamps(leaderboard) :
                    leaderboard' = Append(leaderboard,
                                          LeaderboardRow(leaderboard, player_name,
                                                         session[s], timestamp))
               /\ LET row == leaderboard'[Len(leaderboard')]
                      checked == check_achievements(achievements, leaderboard', player_name,
                                                    row.score, row.total_questions,
                                                    row.percentage)
                  IN /\ achievements' = checked.table
                     /\ resp' = [resp EXCEPT ![s] =
                                  [op |-> "score", status |-> 200,
                                   leaderboard_id |-> row.id,
                                   achievements |-> checked.earned]]
       /\ pc' = [pc EXCEPT ![s] = "done"]
       /\ UNCHANGED <<QUESTIONS, session, stats, presented, questions_file>>

----------------------------------------------------------------------------
(* get_leaderboard *)

\* line 402: the cap on the rows of one answer, and the limit of a request
\* that names none
MaxLimit == 100

DefaultLimit == 10

\* request.args has no 'limit' key
Missing == "(missing)"

\* the 'limit' arguments for which int() returns
IsInt(str) == str \in {"-1", "0", "1", "2", "500"}

\* int() on them
ParseInt(str) ==
    CASE str = "-1"  -> -1
      [] str = "0"   -> 0
      [] str = "1"   -> 1
      [] str = "2"   -> 2
      [] str = "500" -> 500

\* the WHERE clause: 'all' adds no condition, anything else is compared
\* with = to the stored text
MatchesFilter(row, category, difficulty) ==
    /\ category = "all" \/ row.category = category
    /\ difficulty = "all" \/ row.difficulty = difficulty

\* ORDER BY percentage DESC, score DESC, total_questions DESC, timestamp ASC:
\* row a must come before row b
SortsBefore(a, b) ==
    \/ a.percentage > b.percentage
    \/ a.percentage = b.percentage /\ a.score > b.score
    \/ a.percentage = b.percentage /\ a.score = b.score
         /\ a.total_questions > b.total_questions
    \/ a.percentage = b.percentage /\ a.score = b.score
         /\ a.total_questions = b.total_questions /\ a.timestamp < b.timestamp

\* the orders in which the statement may return the matching rows: rows
\* equal in all four sort keys come in either order
Ordered(board, category, difficulty) ==
    LET match == { i \in 1..Len(board) : MatchesFilter(board[i], category, difficulty) }
        k == Cardinality(match)
    IN { [i \in 1..k |-> board[f[i]]] :
           f \in { g \in [1..k -> match] :
                      /\ \A i, j \in 1..k : i # j => g[i] # g[j]
                      /\ \A i, j \in 1..k :
                            i < j => ~SortsBefore(board[g[j]], board[g[i]]) } }

\* LIMIT ?: the first `limit` rows, and every row when `limit` is negative
Limit(rows, limit) ==
    IF limit < 0 THEN rows ELSE SubSeq(rows, 1, Min(limit, Len(rows)))

\* lines 428-439: enumerate(results, 1)
Ranked(rows) ==
    [i \in 1..Len(rows) |->
        [rank |-> i,
         playerName |-> rows[i].player_name,
         score |-> rows[i].score,
         totalQuestions |-> rows[i].total_questions,
         percentage |-> rows[i].percentage,
         category |-> rows[i].category,
         difficulty |-> rows[i].difficulty,
         timestamp |-> rows[i].timestamp]]

get_leaderboard(s, category, difficulty, limitArg) ==
    /\ pc[s] = "idle"
    /\ req' = [req EXCEPT ![s] = [op |-> "leaderboard", category |-> category,
                                  difficulty |-> difficulty, limit |-> limitArg]]
    /\ IF limitArg # Missing /\ ~IsInt(limitArg)
       THEN \* line 402 is outside the try block
            resp' = [resp EXCEPT ![s] = Fault("leaderboard", "ValueError")]
       ELSE LET limit == Min(IF limitArg = Missing THEN DefaultLimit
                                                    ELSE ParseInt(limitArg),
                             MaxLimit)
            IN \E results \in Ordered(leaderboard, category, difficulty) :
                  resp' = [resp EXCEPT ![s] =
                             [op |-> "leaderboard", status |-> 200,
                              leaderboard |-> Ranked(Limit(results, limit)),
                              filters |-> [category |-> category,
                                           difficulty |-> difficulty,
                                           limit |-> limit]]]
    /\ pc' = [pc EXCEPT ![s] = "done"]
    /\ UNCHANGED <<QUESTIONS, session, stats, presented,
                   questions_file, leaderboard, achievements>>

----------------------------------------------------------------------------
(* generate_question *)

\* an option that is not a JSON string (a number, null, a list)
NotAString == "(not a string)"

\* validate_question_data without the test of the number of options
validate_question_data_any_length(data) ==
    IF \E field \in {"question", "options", "correctAnswer", "explanation"} :
          field \notin DOMAIN data
    THEN [is_valid |-> FALSE, error_msg |-> "Missing required field"]
    ELSE IF data.correctAnswer < 0 \/ data.correctAnswer > 3
    THEN [is_valid |-> FALSE,
          error_msg |-> "correctAnswer must be an integer between 0 and 3"]
    ELSE IF Strip(data.question) = ""
    THEN [is_valid |-> FALSE, error_msg |-> "Question must be a non-empty string"]
    ELSE IF Strip(data.explanation) = ""
    THEN [is_valid |-> FALSE, error_msg |-> "Explanation must be a non-empty string"]
    ELSE [is_valid |-> TRUE, error_msg |-> "Valid"]

\* question_generator.py lines 39-67, on a candidate whose options are a
\* list, whose correctAnswer is an integer and whose texts are strings
validate_question_data(data) ==
    IF \E field \in {"question", "options", "correctAnswer", "explanation"} :
          field \notin DOMAIN data
    THEN [is_valid |-> FALSE, error_msg |-> "Missing required field"]
    ELSE IF Len(data.options) # 4
    THEN [is_valid |-> FALSE, error_msg |-> "Options must be a list of exactly 4 items"]
    ELSE IF data.correctAnswer < 0 \/ data.correctAnswer > 3
    THEN [is_valid |-> FALSE,
          error_msg |-> "correctAnswer must be an integer between 0 and 3"]
    ELSE IF Strip(data.question) = ""
    THEN [is_valid |-> FALSE, error_msg |-> "Question must be a non-empty string"]
    ELSE IF Strip(data.explanation) = ""
    THEN [is_valid |-> FALSE, error_msg |-> "Explanation must be a non-empty string"]
    ELSE [is_valid |-> TRUE, error_msg |-> "Valid"]

\* generate_unique_id(): the identifier of the k-th generated question
GeneratedIds == <<"generated_1", "generated_2", "generated_3", "generated_4">>

\* the records of the file that generation added
Generated(file) ==
    { i \in 1..Len(file.records) : file.records[i].id \in Elements(GeneratedIds) }

\* question_generator.py lines 136-146
format_question_for_storage(question_data, category, id) ==
    [id |-> id, category |-> Lower(category), difficulty |-> "medium",
     question |-> question_data.question,
     options |-> question_data.options,
     correctAnswer |-> question_data.correctAnswer]

\* question_generator.py lines 194-214: the file with the question appended
\* to its records, written anew
save_question(file, question) ==
    [exists |-> TRUE, records |-> Append(file.records, question)]

\* the session is left without the mark of line 558
MarkNothing(sess) == sess

\* line 558
MarkGenerated(sess) == [sess EXCEPT !.question_generated = TRUE]

\* an error answer of generate_question: str(e) after the handler's prefix
GenerateError(status, error, cause, detail) ==
    [op |-> "generate", status |-> status, error |-> error,
     cause |-> cause, detail |-> detail]

\* The handler with GENERATION_ENABLED set and the generator configured.
\* outcome is what the text-generation service does if it is called: it
\* fails, answers with text that is not JSON, or answers with JSON data.
generate_question(s, categoryArg, outcome) ==
    LET category == Strip(categoryArg)
    IN /\ pc[s] = "idle"
       /\ req' = [req EXCEPT ![s] = [op |-> "generate", category |-> categoryArg,
                                     outcome |-> outcome]]
       /\ IF category = ""
          THEN /\ resp' = [resp EXCEPT ![s] =
                            GenerateError(400, "Category is required", "", "")]
               /\ UNCHANGED <<QUESTIONS, session, questions_file>>
          ELSE IF session[s].question_generated
          THEN /\ resp' = [resp EXCEPT ![s] =
                            GenerateError(429, "You have already generated a question for this game. Please play again to generate another!", "", "")]
               /\ UNCHANGED <<QUESTIONS, session, questions_file>>
          ELSE IF TooLong(category)
          THEN /\ resp' = [resp EXCEPT ![s] =
                            GenerateError(400, "Category name too long (max 50 characters)",
                                          "", "")]
               /\ UNCHANGED <<QUESTIONS, session, questions_file>>
          ELSE IF outcome.kind = "api_error"
          THEN /\ resp' = [resp EXCEPT ![s] =
                            GenerateError(500, "Failed to generate question",
                                          "OpenAI API error", "")]
               /\ UNCHANGED <<QUESTIONS, session, questions_file>>
          ELSE IF outcome.kind = "not_json"
          THEN /\ resp' = [resp EXCEPT ![s] =
                            GenerateError(500, "Failed to generate question",
                                          "Invalid JSON response from AI", "")]
               /\ UNCHANGED <<QUESTIONS, session, questions_file>>
          ELSE IF ~validate_question_data(outcome.data).is_valid
          THEN /\ resp' = [resp EXCEPT ![s] =
                            GenerateError(500, "Failed to generate question",
                                          "Invalid question format",
                                          validate_question_data(outcome.data).error_msg)]
               /\ UNCHANGED <<QUESTIONS, session, questions_file>>
          ELSE LET id == GeneratedIds[Cardinality(Generated(questions_file)) + 1]
                   new_question == format_question_for_storage(outcome.data, category, id)
               IN /\ Cardinality(Generated(questions_file)) < MaxGenerated
                  /\ questions_file' = save_question(questions_file, new_question)
                  /\ session' = [session EXCEPT ![s] = MarkGenerated(@)]
                  /\ QUESTIONS' = load_questions(questions_file')
                  /\ resp' = [resp EXCEPT ![s] =
                               [op |-> "generate", status |-> 200,
                                question_id |-> id,
                                total_questions |-> Len(QUESTIONS'),
                                generated_question |-> new_question]]
       /\ pc' = [pc EXCEPT ![s] = "done"]
       /\ UNCHANGED <<stats, presented, leaderboard, achievements>>

----------------------------------------------------------------------------
(* the client *)

\* client s takes the response; its next request follows (a session is used
\* by one request at a time)
Receive(s) ==
    /\ pc[s] = "done"
    /\ pc' = [pc EXCEPT ![s] = "idle"]
    /\ req' = [req EXCEPT ![s] = NoRequest]
    /\ resp' = [resp EXCEPT ![s] = NoResponse]
    /\ UNCHANGED <<QUESTIONS, session, stats, presented,
                 questions_file, leaderboard, achievements>>

----------------------------------------------------------------------------

Init ==
    /\ QUESTIONS \in {DefaultQuestions, FileQuestions}
    /\ session = [s \in Sessions |-> EmptySession]
    /\ stats = <<>>
    /\ req = [s \in Sessions |-> NoRequest]
    /\ resp = [s \in Sessions |-> NoResponse]
    /\ presented = [s \in Sessions |-> NotPresented]
    /\ pc = [s \in Sessions |-> "idle"]
    /\ questions_file = IF QUESTIONS = DefaultQuestions THEN NoFile ELSE QuestionsJson
    /\ leaderboard = <<>>
    /\ achievements = <<>>

\* the (category, difficulty) pairs clients ask for
Filters ==
    { <<"all", "all">>, <<"SCIENCE", "all">>, <<"all", "hard">>,
      <<"SCIENCE", "EASY">>, <<"nonexistent", "all">> }

Answers == (0..NumOptions - 1) \cup {NoAnswer}

Next ==
    \E s \in {"s1"} :
        \/ \E n \in -1..MaxNum, f \in Filters : start_game(s, n, f[1], f[2])
        \/ \E r \in 0..MaxRot : get_question(s, Rotation(r, NumOptions))
        \/ \E a \in Answers : submit_answer(s, a)
        \/ reset_game(s)
        \/ Receive(s)

Spec == Init /\ [][Next]_vars

(* One client, with random.shuffle drawn from a rotation and an exchange,   *)
(* which between them reach every order of the options.                     *)
ShuffleNext ==
    \E s \in {"s1"} :
        \/ \E n \in 1..MaxNum : start_game(s, n, "all", "all")
        \/ \E r \in 0..MaxRot : get_question(s, Rotation(r, NumOptions))
        \/ get_question(s, SwapFirst(NumOptions))
        \/ submit_answer(s, 0)
        \/ Receive(s)

ShuffleSpec == Init /\ [][ShuffleNext]_vars

(* Two clients playing one game each on the default store, their            *)
(* submit_answer requests interleaving step by step.                        *)
ConcInit ==
    /\ Init
    /\ QUESTIONS = DefaultQuestions

ConcNext ==
    \E s \in Sessions :
        \/ \E n \in -1..MaxNum : ~session[s].started /\ start_game(s, n, "all", "all")
        \/ \E r \in 0..MaxRot : get_question(s, Rotation(r, NumOptions))
        \/ \E a \in Answers : submit_answer_begin(s, a)
        \/ submit_answer_stats(s)
        \/ submit_answer_finish(s)
        \/ Receive(s)

ConcSpec == ConcInit /\ [][ConcNext]_vars

\* the player names clients submit
PlayerNames == {"Ann", " Bob ", "", LongName}

\* the (category, limit) arguments of the leaderboard requests clients send
LeaderboardQueries ==
    { <<"all", Missing>>, <<"all", "-1">>, <<"all", "abc">>,
      <<"SCIENCE", "1">>, <<"science", "2">> }

(* One client that plays games on a questions.json of two records, reads   *)
(* its results, submits its score and reads the leaderboard.                *)
BoardInit ==
    /\ Init
    /\ QUESTIONS = FileQuestions

BoardNext ==
    \E s \in {"s1"} :
        \/ \E n \in 1..MaxNum, category \in {"all", "SCIENCE"} :
              start_game(s, n, category, "all")
        \/ \E a \in {0, NoAnswer} : submit_answer(s, a)
        \/ get_results(s)
        \/ \E playerName \in PlayerNames : submit_score(s, playerName)
        \/ \E q \in LeaderboardQueries : get_leaderboard(s, q[1], "all", q[2])
        \/ Receive(s)

BoardSpec == BoardInit /\ [][BoardNext]_vars

(* One client that plays games on the default store, submits scores and     *)
(* resets its session at any point.                                         *)
ResetNext ==
    \E s \in {"s1"} :
        \/ start_game(s, 1, "all", "all")
        \/ get_question(s, Rotation(0, NumOptions))
        \/ \E a \in {2, NoAnswer} : submit_answer(s, a)
        \/ get_results(s)
        \/ \E playerName \in {"Ann", " Bob "} : submit_score(s, playerName)
        \/ reset_game(s)
        \/ Receive(s)

ResetSpec == ConcInit /\ [][ResetNext]_vars

\* the (score, total_questions) of the games whose achievements are evaluated
Games ==
    { <<8, 10>>, <<9, 10>>, <<10, 10>>,
      <<17, 20>>, <<18, 20>>, <<20, 20>>, <<19, 21>> }

\* a leaderboard row of a game of one question answered wrongly
PlayedBefore(player_name) ==
    << [id |-> 1, player_name |-> player_name, score |-> 0, total_questions |-> 1,
        percentage |-> 0, category |-> "all", difficulty |-> "all", timestamp |-> 0] >>

(* check_achievements called for the games of two players, on a leaderboard *)
(* that is empty or holds an earlier game of one of them.                   *)
AchievementInit ==
    /\ QUESTIONS = DefaultQuestions
    /\ session = [s \in Sessions |-> EmptySession]
    /\ stats = <<>>
    /\ req = [s \in Sessions |-> NoRequest]
    /\ resp = [s \in Sessions |-> NoResponse]
    /\ presented = [s \in Sessions |-> NotPresented]
    /\ pc = [s \in Sessions |-> "idle"]
    /\ questions_file = NoFile
    /\ leaderboard \in {<<>>, PlayedBefore("Ann")}
    /\ achievements = <<>>

AchievementNext ==
    \E s \in {"s1"} :
        \/ \E player_name \in {"Ann", "Bob"}, game \in Games :
              evaluate(s, player_name, game[1], game[2])
        \/ Receive(s)

AchievementSpec == AchievementInit /\ [][AchievementNext]_vars

\* a candidate the validation accepts
GoodCandidate ==
    [question |-> "Who painted the Mona Lisa?",
     options |-> <<"Leonardo", "Raphael", "Titian", "Giotto">>,
     correctAnswer |-> 0,
     explanation |-> "Leonardo da Vinci painted it."]

\* the JSON data the text-generation service answers with
Candidates ==
    { GoodCandidate,
      [GoodCandidate EXCEPT !.options = <<"Leonardo", "Raphael", "Titian">>],
      [GoodCandidate EXCEPT !.options = <<"Leonardo", "Raphael", "Titian", "Giotto", "Goya">>],
      [GoodCandidate EXCEPT !.options = <<"Leonardo", "", "Titian", "Giotto">>],
      [GoodCandidate EXCEPT !.options = <<"Leonardo", "Raphael", NotAString, "Giotto">>],
      [GoodCandidate EXCEPT !.correctAnswer = 4],
      [GoodCandidate EXCEPT !.correctAnswer = 3],
      [GoodCandidate EXCEPT !.question = "  "],
      [GoodCandidate EXCEPT !.explanation = ""],
      [question |-> "Who painted the Mona Lisa?",
       options |-> <<"Leonardo", "Raphael", "Titian">>,
       correctAnswer |-> 0] }

NoData == [question |-> "", options |-> <<>>, correctAnswer |-> 0, explanation |-> ""]

\* what the text-generation service does when it is called
Outcomes ==
    { [kind |-> "api_error", data |-> NoData], [kind |-> "not_json", data |-> NoData] }
      \cup { [kind |-> "json", data |-> data] : data \in Candidates }

\* the category arguments clients send
Categories == {"Art", " Art ", "  ", LongName}

(* One client that generates questions, starts games and resets.            *)
GenerateNext ==
    \E s \in {"s1"} :
        \/ \E categoryArg \in Categories, outcome \in Outcomes :
              generate_question(s, categoryArg, outcome)
        \/ \E n \in 0..MaxNum : start_game(s, n, "all", "all")
        \/ reset_game(s)
        \/ Receive(s)

GenerateSpec == Init /\ [][GenerateNext]_vars

\* the index, in the options /api/question last returned to client s, of the
\* option that is the correct one in the question store
RightAnswer(s) ==
    LET id == At(session[s].questions, session[s].current_index).id
        stored == CHOOSE q \in Elements(QUESTIONS) : q.id = id
        right == At(stored.options, stored.correct)
    IN (CHOOSE k \in 1..Len(presented[s].options) : presented[s].options[k] = right) - 1

(* One client that asks for each question and answers it with the index the *)
(* right option has in the list it was shown, and reads its results.        *)
PerfectNext ==
    \E s \in {"s1"} :
        \/ \E n \in 1..MaxNum : start_game(s, n, "all", "all")
        \/ \E r \in 0..MaxRot : get_question(s, Rotation(r, NumOptions))
        \/ get_question(s, SwapFirst(NumOptions))
        \/ presented[s].shown /\ submit_answer(s, RightAnswer(s))
        \/ get_results(s)
        \/ Receive(s)

PerfectSpec == Init /\ [][PerfectNext]_vars

\* what the text-generation service does in the games of SnapshotNext
SnapshotOutcomes ==
    { [kind |-> "api_error", data |-> NoData], [kind |-> "json", data |-> GoodCandidate] }

(* One client that plays games of two questions, reads results, submits the *)
(* first score of the leaderboard and generates the first question.         *)
SnapshotNext ==
    \E s \in {"s1"} :
        \/ start_game(s, 2, "all", "all")
        \/ get_question(s, Rotation(MaxRot, NumOptions))
        \/ \E a \in {0, NoAnswer} : submit_answer(s, a)
        \/ get_results(s)
        \/ leaderboard = <<>> /\ submit_score(s, "Ann")
        \/ /\ Generated(questions_file) = {}
           /\ \E outcome \in SnapshotOutcomes : generate_question(s, "Art", outcome)
        \/ reset_game(s)
        \/ Receive(s)

SnapshotSpec == BoardInit /\ [][SnapshotNext]_vars

\* a game is started and its cursor is below its total
InProgress(s) ==
    session[s].started /\ session[s].current_index < Len(session[s].questions)

(* One client that starts a single game, plays it and submits scores, none  *)
(* of them while the game is in progress.                                   *)
OneGameNext ==
    \E s \in {"s1"} :
        \/ /\ ~session[s].started
           /\ \E n \in 1..MaxNum : start_game(s, n, "all", "all")
        \/ get_question(s, Rotation(0, NumOptions))
        \/ \E a \in {0, NoAnswer} : submit_answer(s, a)
        \/ get_results(s)
        \/ /\ ~InProgress(s)
           /\ \E playerName \in {"Ann", " Bob "} : submit_score(s, playerName)
        \/ Receive(s)

OneGameSpec == BoardInit /\ [][OneGameNext]_vars

(* One client whose answers meet a question_stats table that may fail.      *)
FaultNext ==
    \E s \in {"s1"} :
        \/ \E n \in 0..MaxNum : start_game(s, n, "all", "all")
        \/ get_question(s, Rotation(0, NumOptions))
        \/ \E a \in Answers : submit_answer(s, a)
        \/ \E a \in Answers : submit_answer_stats_error(s, a)
        \/ get_results(s)
        \/ Receive(s)

FaultSpec == Init /\ [][FaultNext]_vars

----------------------------------------------------------------------------
(* Vocabulary of the properties *)

\* the record of the question store that carries identifier id
Canonical(id) == CHOOSE q \in {QUESTIONS[i] : i \in 1..Len(QUESTIONS)} : q.id = id

\* the text of the correct option of question id in the question store
CorrectText(id) == At(Canonical(id).options, Canonical(id).correct)

\* the 0-based position of x in list
IndexOf(list, x) == (CHOOSE k \in 1..Len(list) : list[k] = x) - 1

\* positions of the store's questions that match the filter, case-insensitively
PoolIdx(category, difficulty) ==
    { i \in 1..Len(QUESTIONS) :
        /\ category = "all" \/ Lower(QUESTIONS[i].category) = Lower(category)
        /\ difficulty = "all" \/ Lower(QUESTIONS[i].difficulty) = Lower(difficulty) }

PoolSize(category, difficulty) == Cardinality(PoolIdx(category, difficulty))

NoRow == [times_shown |-> 0, times_correct |-> 0, times_incorrect |-> 0]

Row(table, id) == IF id \in DOMAIN table THEN table[id] ELSE NoRow

\* the achievement names player_name holds in table
Held(table, player_name) ==
    { table[i].achievement_name :
        i \in { k \in 1..Len(table) : table[k].player_name = player_name } }

\* the sort keys of an entry of a leaderboard answer, named as in the table
SortKeys(entry) ==
    [percentage |-> entry.percentage, score |-> entry.score,
     total_questions |-> entry.totalQuestions, timestamp |-> entry.timestamp]

\* the generate request of client s reaches the text-generation service:
\* its category is not blank and not too long, and the session has not
\* generated a question yet
ServiceCalled(s, request) ==
    /\ Strip(request.category) # ""
    /\ ~TooLong(Strip(request.category))
    /\ ~session[s].question_generated

NoMatchingQuestions == Error("start", 400, "No questions match your criteria")

NoActiveGame == Error("answer", 400, "No active game")

NoCompletedGame == Error("results", 400, "No completed game")

NoGameToShow == Error("question", 400, "No active game")

NoMoreQuestions == Error("question", 400, "No more questions")

----------------------------------------------------------------------------
(* Properties *)

\* C1: however often /api/question has reshuffled a question of the session,
\* the option at the stored correct index is the text of the question's
\* correct option in the question store, and so is the option at that index
\* of the list last shown to the client.
C1_CorrectOptionSurvivesShuffles ==
    \A s \in Sessions :
        /\ \A k \in 1..Len(session[s].questions) :
              LET q == session[s].questions[k]
              IN /\ q.correct \in 0..Len(q.options) - 1
                 /\ At(q.options, q.correct) = CorrectText(q.id)
        /\ presented[s].shown =>
              LET q == At(session[s].questions, session[s].current_index)
              IN At(presented[s].options, q.correct) = CorrectText(q.id)

\* the options of the current question stand in reverse order, which neither
\* the rotation nor the exchange produces in one call
C1_Witness ==
    /\ session["s1"].started
    /\ presented["s1"].shown
    /\ LET q == At(session["s1"].questions, session["s1"].current_index)
           c == Canonical(q.id)
       IN /\ q.options = [k \in 1..NumOptions |-> c.options[NumOptions + 1 - k]]
          /\ q.correct # c.correct

\* C2: an answer submitted while a game is in progress is reported correct
\* exactly when it is the index the correct option had in the list
\* /api/question last showed for this cursor position, or its index in the
\* question store when the question was never shown.
C2_AnswerCheckedAgainstLastShown ==
    [][\A s \in Sessions, a \in Answers :
         (InProgress(s) /\ req'[s].op = "answer" /\ submit_answer(s, a)) =>
            LET q == At(session[s].questions, session[s].current_index)
                shownIndex == IF presented[s].shown
                              THEN IndexOf(presented[s].options, CorrectText(q.id))
                              ELSE Canonical(q.id).correct
            IN /\ resp'[s].op = "answer"
               /\ resp'[s].status = 200
               /\ resp'[s].correct = (a = shownIndex)]_vars

\* an answer was accepted as correct although it is not the correct index of
\* the question store: it was checked against a shuffled list
C2_Witness ==
    /\ resp["s1"].op = "answer"
    /\ resp["s1"].status = 200
    /\ resp["s1"].correct
    /\ LET last == session["s1"].answers[Len(session["s1"].answers)]
           q == session["s1"].questions[session["s1"].current_index]
       IN last.userAnswer # Canonical(q.id).correct

\* C3: a start with a count n >= 1 and a filter whose pool is not empty
\* leaves a started session of min(n, pool size) questions, reports that
\* total, and has cursor 0, score 0 and no answers, whatever the session
\* held before.
C3_StartTotalIsMinOfCountAndPool ==
    [][\A s \in Sessions :
         (/\ req'[s].op = "start"
          /\ start_game(s, req'[s].numQuestions, req'[s].category, req'[s].difficulty)
          /\ req'[s].numQuestions >= 1
          /\ PoolSize(req'[s].category, req'[s].difficulty) > 0) =>
            LET total == Min(req'[s].numQuestions,
                             PoolSize(req'[s].category, req'[s].difficulty))
            IN /\ session'[s].started
               /\ Len(session'[s].questions) = total
               /\ resp'[s] = [op |-> "start", status |-> 200, totalQuestions |-> total]
               /\ session'[s].current_index = 0
               /\ session'[s].score = 0
               /\ session'[s].answers = <<>>]_vars

\* a game of one question out of the unfiltered pool of two
C3_Witness ==
    /\ QUESTIONS = FileQuestions
    /\ resp["s1"] = [op |-> "start", status |-> 200, totalQuestions |-> 1]
    /\ session["s1"].started
    /\ session["s1"].game_category = "all"
    /\ session["s1"].game_difficulty = "all"
    /\ Len(session["s1"].questions) = 1

\* C4: the questions of a started session carry pairwise different
\* identifiers, and each is a question of the pool that the session's
\* category and difficulty select from the store.
C4_SelectionDistinctAndInPool ==
    \A s \in Sessions :
        session[s].started =>
            LET qs == session[s].questions
            IN /\ \A i, j \in 1..Len(qs) : i # j => qs[i].id # qs[j].id
               /\ \A i \in 1..Len(qs) :
                     \E k \in PoolIdx(session[s].game_category, session[s].game_difficulty) :
                        QUESTIONS[k].id = qs[i].id

\* a game filtered by a category written in another case than the store's
C4_Witness ==
    /\ session["s1"].started
    /\ session["s1"].game_category = "SCIENCE"
    /\ session["s1"].game_difficulty = "EASY"
    /\ Len(session["s1"].questions) = 1
    /\ session["s1"].questions[1].category = "Science"

\* C5: a submit_answer in a game in progress appends one answer record,
\* adds 1 to the score when the answer is correct and 0 otherwise, moves the
\* cursor by 1, and reports isLastQuestion exactly when the new cursor is
\* the total.
C5_SubmitAdvancesByOne ==
    [][\A s \in Sessions, a \in Answers :
         (InProgress(s) /\ req'[s].op = "answer" /\ submit_answer(s, a)) =>
            LET old == session[s]
                new == session'[s]
                r == resp'[s]
            IN /\ r.op = "answer"
               /\ r.status = 200
               /\ Len(new.answers) = Len(old.answers) + 1
               /\ SubSeq(new.answers, 1, Len(old.answers)) = old.answers
               /\ new.answers[Len(new.answers)].userAnswer = a
               /\ new.answers[Len(new.answers)].correct = r.correct
               /\ new.score = old.score + (IF r.correct THEN 1 ELSE 0)
               /\ new.current_index = old.current_index + 1
               /\ r.isLastQuestion <=> (new.current_index = Len(old.questions))]_vars

\* the first of two questions was answered correctly: not the last question
C5_Witness ==
    /\ resp["s1"].op = "answer"
    /\ resp["s1"].status = 200
    /\ resp["s1"].correct
    /\ ~resp["s1"].isLastQuestion
    /\ session["s1"].current_index = 1
    /\ session["s1"].score = 1
    /\ Len(session["s1"].answers) = 1
    /\ Len(session["s1"].questions) = 2

\* C6: every row of question_stats has times_shown = times_correct +
\* times_incorrect; no step removes a row or lowers a counter; and a
\* submit_answer in a game in progress raises times_shown of the answered
\* question by 1 and exactly one of times_correct / times_incorrect by 1
\* (counting a missing row as zeros) and leaves every other row alone.
C6_StatsCountOutcomes ==
    /\ [](\A id \in DOMAIN stats :
            /\ stats[id].times_shown = stats[id].times_correct + stats[id].times_incorrect
            /\ stats[id].times_shown >= 1)
    /\ [][/\ \A id \in DOMAIN stats :
               /\ id \in DOMAIN stats'
               /\ stats'[id].times_shown >= stats[id].times_shown
               /\ stats'[id].times_correct >= stats[id].times_correct
               /\ stats'[id].times_incorrect >= stats[id].times_incorrect
          /\ \A s \in Sessions, a \in Answers :
               (InProgress(s) /\ req'[s].op = "answer" /\ submit_answer(s, a)) =>
                  LET id == At(session[s].questions, session[s].current_index).id
                      c == IF resp'[s].correct THEN 1 ELSE 0
                  IN /\ Row(stats', id).times_shown = Row(stats, id).times_shown + 1
                     /\ Row(stats', id).times_correct = Row(stats, id).times_correct + c
                     /\ Row(stats', id).times_incorrect =
                           Row(stats, id).times_incorrect + (1 - c)
                     /\ DOMAIN stats' = DOMAIN stats \cup {id}
                     /\ \A other \in DOMAIN stats \ {id} : stats'[other] = stats[other]]_vars

\* a row that was created by one answer and updated by another
C6_Witness ==
    \E id \in DOMAIN stats :
        /\ stats[id].times_shown = 2
        /\ stats[id].times_correct = 1
        /\ stats[id].times_incorrect = 1

\* the answers of client s whose outcome has been written to question_stats
Recorded(s) ==
    Len(session[s].answers) - (IF pc[s] = "stats" THEN 1 ELSE 0)

\* those of them that answered question id
RecordedFor(id) ==
    { <<s, k>> \in Sessions \X (1..MaxNum) :
        k <= Recorded(s) /\ session[s].questions[k].id = id }

\* C7: with the submit_answer requests of two clients interleaved in any
\* order, question_stats has counted every outcome written for a question:
\* times_shown and times_correct + times_incorrect equal the number of
\* answers the two clients have recorded for it, and times_correct the
\* number of correct ones.
C7_NoLostUpdate ==
    \A i \in 1..Len(QUESTIONS) :
        LET id == QUESTIONS[i].id
            done == RecordedFor(id)
        IN /\ Row(stats, id).times_shown = Cardinality(done)
           /\ Row(stats, id).times_correct + Row(stats, id).times_incorrect = Cardinality(done)
           /\ Row(stats, id).times_correct =
                 Cardinality({ e \in done : session[e[1]].answers[e[2]].correct })

\* both requests have written their outcome and neither has returned
C7_Witness ==
    /\ pc["s1"] = "advance"
    /\ pc["s2"] = "advance"
    /\ At(session["s1"].questions, session["s1"].current_index).id = "default_001"
    /\ At(session["s2"].questions, session["s2"].current_index).id = "default_001"
    /\ stats["default_001"].times_shown = 2
    /\ stats["default_001"].times_correct + stats["default_001"].times_incorrect = 2

\* C8: a start whose filter matches no question answers with the error
\* "No questions match your criteria" for every requested count, and does
\* not turn a session without a game into one with a game.
C8_EmptyPoolStartFails ==
    [][\A s \in Sessions :
         (/\ req'[s].op = "start"
          /\ start_game(s, req'[s].numQuestions, req'[s].category, req'[s].difficulty)
          /\ PoolSize(req'[s].category, req'[s].difficulty) = 0) =>
            /\ resp'[s] = NoMatchingQuestions
            /\ session'[s].started => session[s].started]_vars

\* C9: a start that fails leaves the session as it was before the call.
C9_FailedStartKeepsSession ==
    [][\A s \in Sessions :
         (/\ req'[s].op = "start"
          /\ start_game(s, req'[s].numQuestions, req'[s].category, req'[s].difficulty)
          /\ resp'[s].status # 200) =>
            session'[s] = session[s]]_vars

\* C10: a submit_answer outside a game in progress (no game started, or the
\* cursor at the total) answers with the error "No active game".
C10_SubmitOutsideGameIsNoActiveGame ==
    [][\A s \in Sessions, a \in Answers :
         (~InProgress(s) /\ req'[s].op = "answer" /\ submit_answer(s, a)) =>
            resp'[s] = NoActiveGame]_vars

\* C11: a submit_answer that fails (no game, the cursor at the total, or the
\* question_stats write raising) leaves the session's cursor, score and
\* answers and every row of question_stats as they were before the call.
C11_FailedSubmitChangesNothing ==
    [][\A s \in Sessions :
         (pc[s] = "idle" /\ req'[s].op = "answer" /\ resp'[s].status # 200) =>
            /\ session'[s].current_index = session[s].current_index
            /\ session'[s].score = session[s].score
            /\ session'[s].answers = session[s].answers
            /\ stats' = stats]_vars

\* C12: results asked of a started session that holds no answer yet fails
\* with the error "No completed game", and a results request succeeds only
\* on a session whose answer list is not empty.
C12_ResultsNeedAnAnswer ==
    [][\A s \in Sessions :
         (pc[s] = "idle" /\ req'[s].op = "results") =>
            /\ (session[s].started /\ session[s].answers = <<>>) =>
                   resp'[s] = NoCompletedGame
            /\ resp'[s].status = 200 => session[s].answers # <<>>]_vars

\* C13: a successful submit_score of a player who had no leaderboard row
\* before the call reports "Welcome Player" among the achievements newly
\* earned: the count of earlier games leaves out the row just added.
C13_FirstScoreEarnsWelcome ==
    [][\A s \in Sessions :
         (/\ pc[s] = "idle"
          /\ req'[s].op = "score"
          /\ resp'[s].status = 200
          /\ ExistingGames(leaderboard, Strip(req'[s].playerName)) = 0) =>
            "Welcome Player" \in Elements(resp'[s].achievements)]_vars

\* C14: no two rows of the achievements table carry the same (player, type,
\* name), and an evaluation never reports an achievement the player held
\* before it: evaluating the same game of the same player a second time adds
\* no row and reports nothing as newly earned.
C14_AchievementsAwardedOnce ==
    /\ [](\A i, j \in 1..Len(achievements) :
            i # j => achievements[i] # achievements[j])
    /\ [][\A s \in Sessions :
            (pc[s] = "idle" /\ req'[s].op = "achievements") =>
               /\ Elements(resp'[s].achievements)
                     \cap Held(achievements, req'[s].player_name) = {}
               /\ LET again == check_achievements(achievements', leaderboard',
                                                  req'[s].player_name, req'[s].score,
                                                  req'[s].total_questions,
                                                  req'[s].percentage)
                  IN /\ again.table = achievements'
                     /\ again.earned = <<>>]_vars

\* the second evaluation of a game that earned all four achievements
C14_Witness ==
    /\ req["s1"].op = "achievements"
    /\ req["s1"].player_name = "Bob"
    /\ req["s1"].score = 20
    /\ req["s1"].total_questions = 20
    /\ resp["s1"].op = "achievements"
    /\ resp["s1"].achievements = <<>>
    /\ Held(achievements, "Bob") =
          {"Perfect Game", "Trivia Master", "Marathon Player", "Welcome Player"}

\* C15: an evaluation for a player who holds no achievement reports
\* "Perfect Game" exactly when the percentage is 100.0, "Trivia Master"
\* exactly when it is at least 90.0 and "Marathon Player" exactly when the
\* game had 20 questions or more; and no evaluation reports an achievement
\* the player already holds.
C15_AchievementThresholds ==
    [][\A s \in Sessions :
         (pc[s] = "idle" /\ req'[s].op = "achievements") =>
            LET earned == Elements(resp'[s].achievements)
                held == Held(achievements, req'[s].player_name)
            IN /\ held = {} =>
                    /\ "Perfect Game" \in earned <=> req'[s].percentage = 1000
                    /\ "Trivia Master" \in earned <=> req'[s].percentage >= 900
                    /\ "Marathon Player" \in earned <=> req'[s].total_questions >= 20
               /\ earned \cap held = {}]_vars

\* 9 of 10 right, evaluated for a player without achievements: the
\* percentage is 90.0, the lowest that earns "Trivia Master"
C15_Witness ==
    /\ req["s1"].op = "achievements"
    /\ req["s1"].player_name = "Ann"
    /\ req["s1"].score = 9
    /\ req["s1"].total_questions = 10
    /\ req["s1"].percentage = 900
    /\ "Trivia Master" \in Elements(resp["s1"].achievements)
    /\ "Perfect Game" \notin Elements(resp["s1"].achievements)
    /\ Held(achievements, "Ann") = Elements(resp["s1"].achievements)

\* C16: a leaderboard query answers with rows of the table that match its
\* category and difficulty ('all' matching every row), at most
\* min(limit, 100) of them (none for a negative limit) and the best of
\* them, ordered by percentage descending, then score descending, then
\* total_questions descending, then timestamp ascending, the row at
\* position i carrying rank i, from 1.
C16_LeaderboardQueryRanked ==
    [][\A s \in Sessions :
         (pc[s] = "idle" /\ req'[s].op = "leaderboard" /\ resp'[s].status = 200) =>
            LET limit == IF req'[s].limit = Missing THEN 10 ELSE ParseInt(req'[s].limit)
                most == IF limit < 0 THEN 0 ELSE Min(limit, 100)
                out == [i \in 1..Len(resp'[s].leaderboard) |->
                          SortKeys(resp'[s].leaderboard[i])]
                matching == { i \in 1..Len(leaderboard) :
                                /\ req'[s].category \in {"all", leaderboard[i].category}
                                /\ req'[s].difficulty \in {"all", leaderboard[i].difficulty} }
            IN /\ Len(out) <= most
               /\ \A i \in 1..Len(out) :
                     /\ resp'[s].leaderboard[i].rank = i
                     /\ \E k \in matching :
                           /\ leaderboard[k].player_name = resp'[s].leaderboard[i].playerName
                           /\ leaderboard[k].category = resp'[s].leaderboard[i].category
                           /\ leaderboard[k].difficulty = resp'[s].leaderboard[i].difficulty
                           /\ leaderboard[k].score = out[i].score
                           /\ leaderboard[k].total_questions = out[i].total_questions
                           /\ leaderboard[k].percentage = out[i].percentage
                           /\ leaderboard[k].timestamp = out[i].timestamp
               /\ \A i, j \in 1..Len(out) : i < j => ~SortsBefore(out[j], out[i])
               /\ Len(out) = Min(most, Cardinality(matching))
               /\ \A k \in matching, i \in 1..Len(out) :
                     SortsBefore(leaderboard[k], out[i]) =>
                        \E j \in 1..i - 1 :
                           /\ leaderboard[k].player_name = resp'[s].leaderboard[j].playerName
                           /\ ~SortsBefore(leaderboard[k], out[j])
                           /\ ~SortsBefore(out[j], leaderboard[k])]_vars

\* C17: a generate request whose candidate has an options list of another
\* length than 4 is answered with the error "Invalid question format", and
\* questions.json and the in-memory list QUESTIONS are as before the call.
C17_WrongOptionCountRejected ==
    [][\A s \in Sessions :
         (/\ pc[s] = "idle"
          /\ req'[s].op = "generate"
          /\ ServiceCalled(s, req'[s])
          /\ req'[s].outcome.kind = "json"
          /\ Len(req'[s].outcome.data.options) # 4) =>
            /\ resp'[s].status = 500
            /\ resp'[s].cause = "Invalid question format"
            /\ questions_file' = questions_file
            /\ QUESTIONS' = QUESTIONS]_vars

\* a candidate with three options was rejected for the number of its
\* options, on a file that already holds a generated question
C17_Witness ==
    /\ req["s1"].op = "generate"
    /\ req["s1"].outcome.kind = "json"
    /\ Len(req["s1"].outcome.data.options) = 3
    /\ resp["s1"].op = "generate"
    /\ resp["s1"].status = 500
    /\ resp["s1"].detail = "Options must be a list of exactly 4 items"
    /\ Generated(questions_file) # {}

\* C18: every record that generation has added to questions.json has
\* exactly 4 options, each a non-empty string, and a correct index in 0..3:
\* a candidate with an empty or non-string option is rejected and not saved.
C18_GeneratedOptionsAreNonEmptyStrings ==
    \A i \in Generated(questions_file) :
        LET q == questions_file.records[i]
        IN /\ Len(q.options) = 4
           /\ \A k \in 1..Len(q.options) :
                 q.options[k] # "" /\ q.options[k] # NotAString
           /\ q.correctAnswer \in 0..3

C20_ResetClearsSessionOnly ==
    /\ [](\A s \in Sessions : pc[s] = "idle" => ENABLED reset_game(s))
    /\ [][\A s \in Sessions :
            /\ (pc[s] = "idle" /\ req'[s].op = "reset") =>
                  /\ resp'[s] = [op |-> "reset", status |-> 200]
                  /\ session'[s] = EmptySession
                  /\ stats' = stats
                  /\ leaderboard' = leaderboard
                  /\ achievements' = achievements
            /\ (pc[s] = "idle" /\ session[s] = EmptySession) =>
                  /\ req'[s].op = "question" =>
                        resp'[s] = Error("question", 400, "No active game")
                  /\ req'[s].op = "answer" => resp'[s] = NoActiveGame
                  /\ req'[s].op = "results" => resp'[s] = NoCompletedGame]_vars

\* a reset of a finished game whose score is on the leaderboard
C20_Witness ==
    /\ resp["s1"] = [op |-> "reset", status |-> 200]
    /\ session["s1"] = EmptySession
    /\ stats # <<>>
    /\ leaderboard # <<>>
    /\ achievements # <<>>

\* C21: /api/question fails with "No active game" on a session without a
\* game and with "No more questions" when the cursor is at the total,
\* succeeds otherwise, and in each case leaves the cursor, the score, the
\* answers and the number of questions of the session as they were.
C21_QuestionReadsOnly ==
    [][\A s \in Sessions :
         (pc[s] = "idle" /\ req'[s].op = "question") =>
            /\ ~session[s].started => resp'[s] = NoGameToShow
            /\ (session[s].started
                  /\ session[s].current_index = Len(session[s].questions)) =>
                  resp'[s] = NoMoreQuestions
            /\ InProgress(s) => resp'[s].status = 200
            /\ session'[s].current_index = session[s].current_index
            /\ session'[s].score = session[s].score
            /\ session'[s].answers = session[s].answers
            /\ Len(session'[s].questions) = Len(session[s].questions)
            /\ session'[s].started = session[s].started]_vars

\* the question was asked for after the last of two answers
C21_Witness ==
    /\ resp["s1"] = NoMoreQuestions
    /\ session["s1"].current_index = 2
    /\ Len(session["s1"].questions) = 2
    /\ Len(session["s1"].answers) = 2

\* C22: in a game of n questions in which every answer is the index the
\* right option had in the list /api/question returned just before, every
\* answer is reported correct, isLastQuestion is reported on the n-th
\* answer and on no earlier one, and the results of the finished game are
\* score n, total n and percentage 100.0.
C22_PerfectGame ==
    [][\A s \in Sessions :
         /\ (pc[s] = "idle" /\ req'[s].op = "answer") =>
               /\ resp'[s].status = 200
               /\ resp'[s].correct
               /\ Len(session'[s].answers) = Len(session[s].answers) + 1
               /\ resp'[s].isLastQuestion <=>
                     Len(session'[s].answers) = Len(session[s].questions)
         /\ (/\ pc[s] = "idle"
             /\ req'[s].op = "results"
             /\ session[s].started
             /\ Len(session[s].answers) = Len(session[s].questions)) =>
               /\ resp'[s].status = 200
               /\ resp'[s].score = Len(session[s].questions)
               /\ resp'[s].totalQuestions = Len(session[s].questions)
               /\ resp'[s].percentage = 1000]_vars

\* the results of a game of two questions, the second of which was answered
\* with another index than the one the right option has in the store
C22_Witness ==
    /\ resp["s1"].op = "results"
    /\ resp["s1"].status = 200
    /\ resp["s1"].score = 2
    /\ resp["s1"].totalQuestions = 2
    /\ resp["s1"].percentage = 1000
    /\ resp["s1"].answers[2].userAnswer #
          Canonical(session["s1"].questions[2].id).correct

\* C23: the percentage that /api/results reports is score / total * 100
\* rounded to one decimal place, it lies between 0 and 100.0, and the total
\* it is divided by is never 0.
C23_PercentageInRange ==
    /\ Percentage(7, 9) = 778
    /\ \A s \in Sessions :
           /\ session[s].started => Len(session[s].questions) # 0
           /\ (resp[s].op = "results" /\ resp[s].status = 200) =>
                 /\ resp[s].totalQuestions # 0
                 /\ resp[s].percentage =
                       Percentage(resp[s].score, resp[s].totalQuestions)
                 /\ resp[s].percentage >= 0
                 /\ resp[s].percentage <= 1000

\* the number of answer records of session s that are marked correct
NumCorrect(s) ==
    Cardinality({i \in 1..Len(session[s].answers) : session[s].answers[i].correct})

\* C24: in a started session 0 <= score <= cursor <= total, the session
\* holds as many answer records as its cursor says, and its score is the
\* number of those records that are marked correct.
C24_SessionCounters ==
    \A s \in Sessions :
        session[s].started =>
            /\ 0 <= session[s].score
            /\ session[s].score <= session[s].current_index
            /\ session[s].current_index <= Len(session[s].questions)
            /\ Len(session[s].answers) = session[s].current_index
            /\ session[s].score = NumCorrect(s)

\* the identifiers of the questions of list, in the order of the list
Ids(list) == [i \in 1..Len(list) |-> list[i].id]

\* C25: from a start until the next start or reset, no request (question,
\* answer, results, score, generate) and no reload of the question store
\* changes the number of the session's questions, their identifiers or
\* their order.
C25_SnapshotIsFixed ==
    [][\A s \in Sessions :
         (session[s].started /\ req'[s].op \notin {"start", "reset"}) =>
            /\ session'[s].started
            /\ Len(session'[s].questions) = Len(session[s].questions)
            /\ Ids(session'[s].questions) = Ids(session[s].questions)]_vars

\* a game of two questions during which a question was generated and the
\* store reloaded, the first question reshuffled and answered, and a score
\* submitted
C25_Witness ==
    /\ session["s1"].started
    /\ Len(session["s1"].questions) = 2
    /\ session["s1"].question_generated
    /\ Len(QUESTIONS) = 3
    /\ session["s1"].current_index = 1
    /\ session["s1"].questions[1] # Canonical(session["s1"].questions[1].id)
    /\ leaderboard # <<>>

\* C26: a score request adds a row to the leaderboard only when the cursor
\* of the session has reached the number of its questions; a score request
\* of a game in progress adds nothing.
C26_OnlyFinishedGamesAreScored ==
    [][\A s \in Sessions :
         (pc[s] = "idle" /\ req'[s].op = "score") =>
            /\ leaderboard' # leaderboard =>
                  /\ session[s].started
                  /\ session[s].current_index = Len(session[s].questions)
            /\ InProgress(s) => leaderboard' = leaderboard]_vars

\* C27: the single game of a client adds at most one row to the
\* leaderboard, however often its score is submitted once it is finished.
C27_OneEntryPerGame == Len(leaderboard) <= 1

====
